---- MODULE Spec2Model ----
(***************************************************************************)
(* Server actions of the dashboard (app/lib/actions.ts): createInvoice,    *)
(* updateInvoice, deleteInvoice, authenticate and register, run as         *)
(* independent asynchronous tasks against the tables invoices and users.   *)
(*                                                                         *)
(* A task is one form submission.  It runs synchronously up to its next    *)
(* await (a SQL statement, bcryptjs.hash, signIn) and is resumed when the  *)
(* awaited call settles; other tasks may run in between.                   *)
(*                                                                         *)
(* Numbers: a JavaScript number is modelled in fixed point, as the integer *)
(* Scale * value, so that amount * 100 is computed exactly.  Binary        *)
(* floating point only adds rounding error to the exact product.           *)
(***************************************************************************)
EXTENDS Integers, Sequences, FiniteSets, TLC

VARIABLES
    pc,        \* task -> where the task is suspended
    handler,   \* task -> the server action it runs
    args,      \* task -> the arguments of the call (id, formData)
    data,      \* task -> validatedFields.data and the handler's locals
    result,    \* task -> how the call ended and what it returned
    effects,   \* task -> the calls made across the boundaries, in order
    invoices,  \* table invoices(id, customer_id, amount, status, date)
    users,     \* table users(id, name, email, password)
    nextId     \* next identifier the database generates

vars == <<pc, handler, args, data, result, effects, invoices, users, nextId>>

----------------------------------------------------------------------------
(* Bounds *)

NumTasks == 2        \* form submissions in one behaviour
MaxNow == 2          \* latest clock reading, in ticks
TicksPerDay == 2     \* clock ticks in a calendar day
NumSalts == 2        \* salts bcryptjs may draw
FracDigits == 3      \* fraction digits a number keeps

Tasks == 1..NumTasks

----------------------------------------------------------------------------
(* Values *)

NULL == "<null>"            \* formData.get of a missing field
NULLSEQ == <<NULL>>         \* the same, for a field modelled as characters
UNDEFINED == "<undefined>"  \* an absent property or no return value

InvoicesPath == "/dashboard/invoices"
LoginPath == "/login"

Digit == ("0" :> 0) @@ ("1" :> 1) @@ ("2" :> 2) @@ ("3" :> 3) @@ ("4" :> 4)
      @@ ("5" :> 5) @@ ("6" :> 6) @@ ("7" :> 7) @@ ("8" :> 8) @@ ("9" :> 9)

IsDigits(s) == \A i \in 1..Len(s) : s[i] \in DOMAIN Digit

RECURSIVE DigitsValue(_)
DigitsValue(s) ==
    IF s = <<>> THEN 0
    ELSE 10 * DigitsValue(SubSeq(s, 1, Len(s) - 1)) + Digit[s[Len(s)]]

RECURSIVE Pow10(_)
Pow10(n) == IF n = 0 THEN 1 ELSE 10 * Pow10(n - 1)

Scale == Pow10(FracDigits)  \* fixed point: the number x is Scale * x

(* Number(v) for a form value: null is 0, the empty string is 0, a decimal  *)
(* literal [+-]digits[.digits] is its value, anything else is NaN.  The    *)
(* result is [nan, val]: val is the number when nan is FALSE.  Literals    *)
(* with an exponent, a radix prefix, surrounding blanks or more than       *)
(* FracDigits fraction digits are not among the submitted amounts.         *)
NaN == [nan |-> TRUE, val |-> 0]
Num(n) == [nan |-> FALSE, val |-> n]

UnsignedNumber(s) ==
    LET dots == {i \in 1..Len(s) : s[i] = "."}
    IN  IF dots = {}
        THEN IF s # <<>> /\ IsDigits(s) THEN Num(Scale * DigitsValue(s)) ELSE NaN
        ELSE IF Cardinality(dots) > 1 THEN NaN
        ELSE LET d == CHOOSE i \in dots : TRUE
                 int == SubSeq(s, 1, d - 1)
                 frac == SubSeq(s, d + 1, Len(s))
             IN  IF /\ IsDigits(int)
                    /\ IsDigits(frac)
                    /\ Len(int) + Len(frac) > 0
                    /\ Len(frac) <= FracDigits
                 THEN Num(Scale * DigitsValue(int)
                          + DigitsValue(frac) * Pow10(FracDigits - Len(frac)))
                 ELSE NaN

Number(v) ==
    IF v = NULLSEQ THEN Num(0)
    ELSE IF v = <<>> THEN Num(0)
    ELSE IF v[1] = "-"
         THEN LET u == UnsignedNumber(Tail(v)) IN IF u.nan THEN NaN ELSE Num(0 - u.val)
    ELSE IF v[1] = "+" THEN UnsignedNumber(Tail(v))
    ELSE UnsignedNumber(v)

(* z.coerce.number().gt(0): the issues raised for the amount field *)
GtZeroMessage == "Please enter an amount greater than $0."
NanMessage == "Expected number, received nan"

(* AmountIssues with gt(0) weakened to gte(0) *)
AmountIssuesGte(v) ==
    LET n == Number(v)
    IN  IF n.nan THEN <<NanMessage>>
        ELSE IF ~(n.val >= 0) THEN <<GtZeroMessage>>
        ELSE <<>>

AmountIssues(v) ==
    LET n == Number(v)
    IN  IF n.nan THEN <<NanMessage>>
        ELSE IF ~(n.val > 0) THEN <<GtZeroMessage>>
        ELSE <<>>

(* z.string({invalid_type_error}): any string passes, the empty one too *)
CustomerMessage == "Please select a customer."

CustomerIdIssues(v) == IF v = NULL THEN <<CustomerMessage>> ELSE <<>>

(* z.enum(['pending', 'paid'], {invalid_type_error}) *)
StatusValues == {"pending", "paid"}
StatusMessage == "Please select an invoice status."
EnumMessage == "Invalid enum value."

StatusIssues(v) ==
    IF v = NULL THEN <<StatusMessage>>
    ELSE IF v \notin StatusValues THEN <<EnumMessage>>
    ELSE <<>>

(* error.flatten().fieldErrors of CreateInvoice / UpdateInvoice; a field   *)
(* without issues (no key in the object) has the empty list.               *)
FieldErrors(fd) ==
    [customerId |-> CustomerIdIssues(fd.customerId),
     amount |-> AmountIssues(fd.amount),
     status |-> StatusIssues(fd.status)]

NoErrors == [customerId |-> <<>>, amount |-> <<>>, status |-> <<>>]

SafeParseSuccess(fd) == FieldErrors(fd) = NoErrors

(* validatedFields.data: amount is the coerced number *)
ParsedData(fd) ==
    [customerId |-> fd.customerId, amount |-> Number(fd.amount).val, status |-> fd.status]

(* const amountInCents = amount * 100, in fixed point *)
AmountInCents(amount) == amount * 100

(* new Date().toISOString().split('T')[0]: the calendar day of the clock   *)
(* reading t                                                               *)
ISODate(t) == t \div TicksPerDay

----------------------------------------------------------------------------
(* Form submissions the model draws from *)

CustomerIds == {NULL, "", "c1", "c2"}
Amounts == {NULLSEQ, <<>>, <<"a", "b", "c">>, <<"0">>, <<"-", "5">>,
            <<"1", "0", ".", "5", "0">>, <<"1", "0", ".", "5", "0", "5">>}
Statuses == {NULL, "draft", "pending", "paid"}
InvoiceForms == [customerId : CustomerIds, amount : Amounts, status : Statuses]

(* The forms concurrent tasks submit: the accepted ones for one customer   *)
(* and one rejected form for each field                                    *)
ValidAmounts == {<<"1", "0", ".", "5", "0">>, <<"1", "0", ".", "5", "0", "5">>}
ConcurrentForms ==
    [customerId : {"c2"}, amount : ValidAmounts, status : StatusValues]
    \cup {[customerId |-> NULL, amount |-> <<"1", "0", ".", "5", "0">>, status |-> "paid"],
          [customerId |-> "c2", amount |-> <<"0">>, status |-> "paid"],
          [customerId |-> "c2", amount |-> <<"1", "0", ".", "5", "0">>, status |-> "draft"]}

InvoiceIds == 1..3
ClockReadings == 0..MaxNow

----------------------------------------------------------------------------
(* State of a task *)

NoArgs == [id |-> 0]
NoData == [customerId |-> UNDEFINED]
NoResult == [type |-> "pending", errors |-> NoErrors, message |-> UNDEFINED,
             value |-> UNDEFINED]

(* return { errors, message } *)
ReturnState(errors, message) ==
    [type |-> "return", errors |-> errors, message |-> message, value |-> UNDEFINED]

(* return of a string, or of nothing (UNDEFINED) *)
ReturnValue(v) ==
    [type |-> "return", errors |-> NoErrors, message |-> UNDEFINED, value |-> v]

(* redirect(path): ends the call by navigating *)
Redirected(path) ==
    [type |-> "redirect", errors |-> NoErrors, message |-> UNDEFINED, value |-> path]

(* throw error: the error leaves the handler *)
Thrown(error) ==
    [type |-> "throw", errors |-> NoErrors, message |-> UNDEFINED, value |-> error]

Sql(statement) == <<"sql", statement>>
RevalidatePath(path) == <<"revalidatePath", path>>
Redirect(path) == <<"redirect", path>>
ConsoleLog == <<"console", "error">>
Hashing == <<"bcryptjs.hash", "10">>

(* How an awaited statement settled *)
Settled(ok) == <<"settled", IF ok THEN "ok" ELSE "error">>

SeedInvoice ==
    [id |-> 1, customer_id |-> "c1", amount |-> 5 * 100 * Scale,
     status |-> "pending", date |-> 0]

EmailA == <<"a", "@", "x", ".", "i", "o">>
EmailB == <<"b", "@", "x", ".", "i", "o">>

SeedUser ==
    [id |-> 1, name |-> "Ann", email |-> EmailA,
     password |-> <<"$2a$", 10, 1, "secret-a">>]

Init ==
    /\ pc = [p \in Tasks |-> "idle"]
    /\ handler = [p \in Tasks |-> "none"]
    /\ args = [p \in Tasks |-> NoArgs]
    /\ data = [p \in Tasks |-> NoData]
    /\ result = [p \in Tasks |-> NoResult]
    /\ effects = [p \in Tasks |-> <<>>]
    /\ invoices = {SeedInvoice}
    /\ users = {SeedUser}
    /\ nextId = 2

(* Task p is the p-th submission to arrive *)
Arrives(p) ==
    /\ pc[p] = "idle"
    /\ \A q \in 1..(p - 1) : pc[q] # "idle"

----------------------------------------------------------------------------
(* createInvoice *)

CreateMissingMessage == "Missing Fields. Failed to create Invoice."
CreateDbMessage == "Database Error: Failed to Create Invoice."

(* From the call to the awaited INSERT; t is the clock reading *)
CreateInvoice(p, fd, t) ==
    /\ Arrives(p)
    /\ handler' = [handler EXCEPT ![p] = "createInvoice"]
    /\ args' = [args EXCEPT ![p] = [id |-> 0, formData |-> fd]]
    /\ IF ~SafeParseSuccess(fd)
       THEN /\ result' = [result EXCEPT
                             ![p] = ReturnState(FieldErrors(fd), CreateMissingMessage)]
            /\ pc' = [pc EXCEPT ![p] = "done"]
            /\ UNCHANGED <<data, effects>>
       ELSE LET d == ParsedData(fd)
            IN  /\ data' = [data EXCEPT
                               ![p] = [customerId |-> d.customerId,
                                       amount |-> d.amount,
                                       status |-> d.status,
                                       amountInCents |-> AmountInCents(d.amount),
                                       date |-> ISODate(t)]]
                /\ effects' = [effects EXCEPT
                                  ![p] = Append(@, Sql("INSERT INTO invoices"))]
                /\ pc' = [pc EXCEPT ![p] = "insert"]
                /\ UNCHANGED result
    /\ UNCHANGED <<invoices, users, nextId>>

(* INSERT INTO invoices (customer_id, amount, status, date) VALUES (...) *)
InsertedInvoice(id, d) ==
    [id |-> id, customer_id |-> d.customerId, amount |-> d.amountInCents,
     status |-> d.status, date |-> d.date]

(* AfterInvoiceSql with the redirect before the invalidation *)
AfterInvoiceSqlSwapped == <<Redirect(InvoicesPath), RevalidatePath(InvoicesPath)>>

(* What follows a statement that succeeded *)
AfterInvoiceSql == <<RevalidatePath(InvoicesPath), Redirect(InvoicesPath)>>

(* The INSERT settles; on success revalidatePath and redirect follow *)
CreateInvoiceSql(p, ok) ==
    /\ pc[p] = "insert"
    /\ IF ok
       THEN /\ invoices' = invoices \cup {InsertedInvoice(nextId, data[p])}
            /\ nextId' = nextId + 1
            /\ effects' = [effects EXCEPT ![p] = Append(@, Settled(ok)) \o AfterInvoiceSql]
            /\ result' = [result EXCEPT ![p] = Redirected(InvoicesPath)]
       ELSE /\ effects' = [effects EXCEPT ![p] = Append(@, Settled(ok))]
            /\ result' = [result EXCEPT ![p] = ReturnState(NoErrors, CreateDbMessage)]
            /\ UNCHANGED <<invoices, nextId>>
    /\ pc' = [pc EXCEPT ![p] = "done"]
    /\ UNCHANGED <<handler, args, data, users>>

----------------------------------------------------------------------------
(* updateInvoice *)

UpdateMissingMessage == "Missing Fields. Failed to update Invoice."
UpdateDbMessage == "Database Error: Failed to Update Invoice."

(* From the call to the awaited UPDATE *)
UpdateInvoice(p, id, fd) ==
    /\ Arrives(p)
    /\ handler' = [handler EXCEPT ![p] = "updateInvoice"]
    /\ args' = [args EXCEPT ![p] = [id |-> id, formData |-> fd]]
    /\ IF ~SafeParseSuccess(fd)
       THEN /\ result' = [result EXCEPT
                             ![p] = ReturnState(FieldErrors(fd), UpdateMissingMessage)]
            /\ pc' = [pc EXCEPT ![p] = "done"]
            /\ UNCHANGED <<data, effects>>
       ELSE LET d == ParsedData(fd)
            IN  /\ data' = [data EXCEPT
                               ![p] = [customerId |-> d.customerId,
                                       amount |-> d.amount,
                                       status |-> d.status,
                                       amountInCents |-> AmountInCents(d.amount)]]
                /\ effects' = [effects EXCEPT ![p] = Append(@, Sql("UPDATE invoices"))]
                /\ pc' = [pc EXCEPT ![p] = "update"]
                /\ UNCHANGED result
    /\ UNCHANGED <<invoices, users, nextId>>

(* UpdatedRows as an upsert: a row is created when none matches *)
UpdatedRowsUpsert(rows, id, d) ==
    IF \E r \in rows : r.id = id
    THEN {IF r.id = id
          THEN [r EXCEPT !.customer_id = d.customerId,
                         !.amount = d.amountInCents,
                         !.status = d.status]
          ELSE r : r \in rows}
    ELSE rows \cup {[id |-> id, customer_id |-> d.customerId,
                     amount |-> d.amountInCents, status |-> d.status, date |-> 0]}

(* UPDATE invoices SET customer_id, amount, status WHERE id = ${id} *)
UpdatedRows(rows, id, d) ==
    {IF r.id = id
     THEN [r EXCEPT !.customer_id = d.customerId,
                    !.amount = d.amountInCents,
                    !.status = d.status]
     ELSE r : r \in rows}

(* The UPDATE settles; on success revalidatePath and redirect follow *)
UpdateInvoiceSql(p, ok) ==
    /\ pc[p] = "update"
    /\ IF ok
       THEN /\ invoices' = UpdatedRows(invoices, args[p].id, data[p])
            /\ effects' = [effects EXCEPT ![p] = Append(@, Settled(ok)) \o AfterInvoiceSql]
            /\ result' = [result EXCEPT ![p] = Redirected(InvoicesPath)]
       ELSE /\ effects' = [effects EXCEPT ![p] = Append(@, Settled(ok))]
            /\ result' = [result EXCEPT ![p] = ReturnState(NoErrors, UpdateDbMessage)]
            /\ UNCHANGED invoices
    /\ pc' = [pc EXCEPT ![p] = "done"]
    /\ UNCHANGED <<handler, args, data, users, nextId>>

----------------------------------------------------------------------------
(* deleteInvoice *)

(* From the call to the awaited DELETE *)
DeleteInvoice(p, id) ==
    /\ Arrives(p)
    /\ handler' = [handler EXCEPT ![p] = "deleteInvoice"]
    /\ args' = [args EXCEPT ![p] = [id |-> id]]
    /\ effects' = [effects EXCEPT ![p] = Append(@, Sql("DELETE FROM invoices"))]
    /\ pc' = [pc EXCEPT ![p] = "delete"]
    /\ UNCHANGED <<data, result, invoices, users, nextId>>

(* DELETE FROM invoices WHERE id = ${id} *)
DeletedRows(rows, id) == {r \in rows : r.id # id}

(* AfterDelete with revalidatePath moved out of the try block *)
AfterDeleteAlways(ok) ==
    IF ok THEN <<RevalidatePath(InvoicesPath)>>
    ELSE <<ConsoleLog, RevalidatePath(InvoicesPath)>>

(* What deleteInvoice does once the DELETE settled *)
AfterDelete(ok) == IF ok THEN <<RevalidatePath(InvoicesPath)>> ELSE <<ConsoleLog>>

(* The DELETE settles: revalidatePath on success, console.log on failure *)
DeleteInvoiceSql(p, ok) ==
    /\ pc[p] = "delete"
    /\ invoices' = IF ok THEN DeletedRows(invoices, args[p].id) ELSE invoices
    /\ effects' = [effects EXCEPT ![p] = Append(@, Settled(ok)) \o AfterDelete(ok)]
    /\ result' = [result EXCEPT ![p] = ReturnValue(UNDEFINED)]
    /\ pc' = [pc EXCEPT ![p] = "done"]
    /\ UNCHANGED <<handler, args, data, users, nextId>>

----------------------------------------------------------------------------
(* Specifications of the invoice actions *)

(* Concurrent submissions of the three invoice actions *)
NextInvoices ==
    \/ \E p \in Tasks, fd \in ConcurrentForms, t \in ClockReadings : CreateInvoice(p, fd, t)
    \/ \E p \in Tasks, ok \in BOOLEAN : CreateInvoiceSql(p, ok)
    \/ \E p \in Tasks, id \in InvoiceIds, fd \in ConcurrentForms : UpdateInvoice(p, id, fd)
    \/ \E p \in Tasks, ok \in BOOLEAN : UpdateInvoiceSql(p, ok)
    \/ \E p \in Tasks, id \in InvoiceIds : DeleteInvoice(p, id)
    \/ \E p \in Tasks, ok \in BOOLEAN : DeleteInvoiceSql(p, ok)

SpecInvoices == Init /\ [][NextInvoices]_vars

(* One submission of createInvoice or updateInvoice, over every form *)
NextForms ==
    \/ \E fd \in InvoiceForms, t \in ClockReadings : CreateInvoice(1, fd, t)
    \/ \E ok \in BOOLEAN : CreateInvoiceSql(1, ok)
    \/ \E id \in InvoiceIds, fd \in InvoiceForms : UpdateInvoice(1, id, fd)
    \/ \E ok \in BOOLEAN : UpdateInvoiceSql(1, ok)

SpecForms == Init /\ [][NextForms]_vars

----------------------------------------------------------------------------
(* register *)

(* z.string().min(1) *)
NameOk(v) == v # NULL /\ Len(v) >= 1

(* z.string().email(): local@label(.label)+ with no empty part, no dot at *)
(* either end of the local part, no two dots in a row, and a last label of *)
(* two characters or more                                                  *)
EmailOk(v) ==
    /\ v # NULLSEQ
    /\ LET ats == {i \in 1..Len(v) : v[i] = "@"}
       IN  /\ Cardinality(ats) = 1
           /\ LET at == CHOOSE i \in ats : TRUE
                  dots == {i \in (at + 1)..Len(v) : v[i] = "."}
              IN  /\ at > 1
                  /\ v[1] # "."
                  /\ v[at - 1] # "."
                  /\ \A i \in 1..(Len(v) - 1) : ~(v[i] = "." /\ v[i + 1] = ".")
                  /\ dots # {}
                  /\ at + 1 \notin dots
                  /\ \A i \in dots : Len(v) - i >= 1
                  /\ \E i \in dots : (\A j \in dots : j <= i) /\ Len(v) - i >= 2

(* z.string().min(6) *)
MinPasswordLength == 6

(* PasswordOk with the bound off by one *)
PasswordOkFive(v) == v # NULL /\ Len(v) >= MinPasswordLength - 1

PasswordOk(v) == v # NULL /\ Len(v) >= MinPasswordLength

(* RegisterFormSchema.safeParse(...).success *)
RegisterParseSuccess(fd) == NameOk(fd.name) /\ EmailOk(fd.email) /\ PasswordOk(fd.password)

RegisterMissingMessage == "Missing Fields. Failed to Register."
RegisterExistsMessage == "User with this email already exists."
RegisterDbMessage == "Database Error: Failed to register."

(* bcryptjs.hash(password, 10): a salted one-way digest, "$2a$10$...".     *)
(* The digest names the password it was made from; only the checked        *)
(* properties read it back.                                                *)
HashCost == 10
Hash(password, salt) == <<"$2a$", HashCost, salt, password>>

Names == {NULL, "", "Bob"}
Emails == {NULLSEQ, <<"a", "x", ".", "i", "o">>, EmailA, EmailB}
Passwords == {NULL, "12345", "123456"}
RegisterForms == [name : Names, email : Emails, password : Passwords]
Salts == 1..NumSalts

(* From the call to the awaited SELECT *)
Register(p, fd) ==
    /\ Arrives(p)
    /\ handler' = [handler EXCEPT ![p] = "register"]
    /\ args' = [args EXCEPT ![p] = [id |-> 0, formData |-> fd]]
    /\ IF ~RegisterParseSuccess(fd)
       THEN /\ result' = [result EXCEPT ![p] = ReturnValue(RegisterMissingMessage)]
            /\ pc' = [pc EXCEPT ![p] = "done"]
            /\ UNCHANGED <<data, effects>>
       ELSE /\ data' = [data EXCEPT
                           ![p] = [name |-> fd.name, email |-> fd.email,
                                   password |-> fd.password]]
            /\ effects' = [effects EXCEPT ![p] = Append(@, Sql("SELECT id FROM users"))]
            /\ pc' = [pc EXCEPT ![p] = "select"]
            /\ UNCHANGED result
    /\ UNCHANGED <<invoices, users, nextId>>

(* ExistingUser for a check written existingUser.length > 1 *)
ExistingUserMoreThanOne(rows, email) ==
    LET found == {r.id : r \in {u \in rows : u.email = email}}
    IN  IF Cardinality(found) > 1 THEN found ELSE {}

(* ExistingUser that looks at the first row only *)
ExistingUserFirstRow(rows, email) ==
    {r.id : r \in {u \in rows : u.email = email /\ u.id = 1}}

(* SELECT id FROM users WHERE email = ${email} *)
ExistingUser(rows, email) == {r.id : r \in {u \in rows : u.email = email}}

(* The SELECT settles: return if a row exists, else await the hash.        *)
(* checkedAt records the identifier counter at the moment of the check.    *)
RegisterSelect(p, ok) ==
    /\ pc[p] = "select"
    /\ IF ~ok
       THEN /\ effects' = [effects EXCEPT ![p] = @ \o <<Settled(ok), ConsoleLog>>]
            /\ result' = [result EXCEPT ![p] = ReturnValue(RegisterDbMessage)]
            /\ pc' = [pc EXCEPT ![p] = "done"]
            /\ UNCHANGED data
       ELSE /\ data' = [data EXCEPT
                           ![p] = [name |-> @.name, email |-> @.email,
                                   password |-> @.password,
                                   existingUser |-> ExistingUser(users, @.email),
                                   checkedAt |-> nextId]]
            /\ IF Cardinality(ExistingUser(users, data[p].email)) > 0
               THEN /\ result' = [result EXCEPT ![p] = ReturnValue(RegisterExistsMessage)]
                    /\ pc' = [pc EXCEPT ![p] = "done"]
                    /\ effects' = [effects EXCEPT ![p] = Append(@, Settled(ok))]
               ELSE /\ effects' = [effects EXCEPT ![p] = @ \o <<Settled(ok), Hashing>>]
                    /\ pc' = [pc EXCEPT ![p] = "hash"]
                    /\ UNCHANGED result
    /\ UNCHANGED <<handler, args, invoices, users, nextId>>

(* The hash settles; the INSERT is issued *)
RegisterHash(p, salt) ==
    /\ pc[p] = "hash"
    /\ data' = [data EXCEPT
                   ![p] = [name |-> @.name, email |-> @.email, password |-> @.password,
                           existingUser |-> @.existingUser, checkedAt |-> @.checkedAt,
                           hashedPassword |-> Hash(@.password, salt)]]
    /\ effects' = [effects EXCEPT ![p] = Append(@, Sql("INSERT INTO users"))]
    /\ pc' = [pc EXCEPT ![p] = "insertUser"]
    /\ UNCHANGED <<handler, args, result, invoices, users, nextId>>

(* INSERT INTO users (name, email, password) VALUES (...) *)
InsertedUser(id, d) ==
    [id |-> id, name |-> d.name, email |-> d.email, password |-> d.hashedPassword]

(* The INSERT settles; on success redirect('/login') follows *)
RegisterInsert(p, ok) ==
    /\ pc[p] = "insertUser"
    /\ IF ok
       THEN /\ users' = users \cup {InsertedUser(nextId, data[p])}
            /\ nextId' = nextId + 1
            /\ effects' = [effects EXCEPT ![p] = @ \o <<Settled(ok), Redirect(LoginPath)>>]
            /\ result' = [result EXCEPT ![p] = Redirected(LoginPath)]
       ELSE /\ effects' = [effects EXCEPT ![p] = @ \o <<Settled(ok), ConsoleLog>>]
            /\ result' = [result EXCEPT ![p] = ReturnValue(RegisterDbMessage)]
            /\ UNCHANGED <<users, nextId>>
    /\ pc' = [pc EXCEPT ![p] = "done"]
    /\ UNCHANGED <<handler, args, data, invoices>>

----------------------------------------------------------------------------
(* authenticate *)

InvalidCredentialsMessage == "Invalid credentials."
SomethingWrongMessage == "Something went wrong."

(* What signIn may do: resolve, throw an AuthError of some type, or throw  *)
(* an error that is no AuthError                                           *)
SignInOutcomes ==
    {[kind |-> "resolved", type |-> UNDEFINED],
     [kind |-> "AuthError", type |-> "CredentialsSignin"],
     [kind |-> "AuthError", type |-> "CallbackRouteError"],
     [kind |-> "AuthError", type |-> "AccessDenied"],
     [kind |-> "Error", type |-> "NEXT_REDIRECT"],
     [kind |-> "Error", type |-> "TypeError"]}

AuthForms == [email : {EmailA, EmailB}, password : {"123456"}]

(* From the call to the awaited signIn('credentials', formData) *)
Authenticate(p, fd) ==
    /\ Arrives(p)
    /\ handler' = [handler EXCEPT ![p] = "authenticate"]
    /\ args' = [args EXCEPT ![p] = [id |-> 0, formData |-> fd]]
    /\ effects' = [effects EXCEPT ![p] = Append(@, <<"signIn", "credentials">>)]
    /\ pc' = [pc EXCEPT ![p] = "signIn"]
    /\ UNCHANGED <<data, result, invoices, users, nextId>>

(* AuthenticateResult without the final throw: every error is mapped *)
AuthenticateResultSwallow(outcome) ==
    IF outcome.kind = "resolved" THEN ReturnValue(UNDEFINED)
    ELSE IF outcome.type = "CredentialsSignin"
         THEN ReturnValue(InvalidCredentialsMessage)
         ELSE ReturnValue(SomethingWrongMessage)

(* The catch block of authenticate, for what signIn did *)
AuthenticateResult(outcome) ==
    IF outcome.kind = "resolved" THEN ReturnValue(UNDEFINED)
    ELSE IF outcome.kind = "AuthError"
         THEN IF outcome.type = "CredentialsSignin"
              THEN ReturnValue(InvalidCredentialsMessage)
              ELSE ReturnValue(SomethingWrongMessage)
    ELSE Thrown(outcome)

(* signIn settles *)
AuthenticateSignIn(p, outcome) ==
    /\ pc[p] = "signIn"
    /\ data' = [data EXCEPT ![p] = [outcome |-> outcome]]
    /\ result' = [result EXCEPT ![p] = AuthenticateResult(outcome)]
    /\ pc' = [pc EXCEPT ![p] = "done"]
    /\ UNCHANGED <<handler, args, effects, invoices, users, nextId>>

----------------------------------------------------------------------------
(* Specification of the user actions *)

NextUsers ==
    \/ \E p \in Tasks, fd \in RegisterForms : Register(p, fd)
    \/ \E p \in Tasks, ok \in BOOLEAN : RegisterSelect(p, ok)
    \/ \E p \in Tasks, salt \in Salts : RegisterHash(p, salt)
    \/ \E p \in Tasks, ok \in BOOLEAN : RegisterInsert(p, ok)
    \/ \E p \in Tasks, fd \in AuthForms : Authenticate(p, fd)
    \/ \E p \in Tasks, outcome \in SignInOutcomes : AuthenticateSignIn(p, outcome)

SpecUsers == Init /\ [][NextUsers]_vars

----------------------------------------------------------------------------
(* Properties of createInvoice and updateInvoice over every form           *)
(* (SpecForms: one submission, so a table left alone is the initial one)   *)

IsInvoiceSubmission(p) == handler[p] \in {"createInvoice", "updateInvoice"}
FormOf(p) == args[p].formData

BadAmount(v) == Number(v).nan \/ Number(v).val <= 0
BadStatus(v) == v \notin {"pending", "paid"}

(* The call returned a state object, issued nothing, and left the table *)
RejectedUntouched(p) ==
    /\ pc[p] = "done"
    /\ result[p].type = "return"
    /\ result[p].message # UNDEFINED
    /\ effects[p] = <<>>
    /\ invoices = {SeedInvoice}

(* C1: a createInvoice or updateInvoice submission whose amount is <= 0,   *)
(* not a number or missing is rejected with a field error on amount, and   *)
(* one whose status is not 'pending' or 'paid' with a field error on       *)
(* status; either way no SQL statement is issued and the invoices table    *)
(* is unchanged.                                                           *)
C1_RejectsBadAmountOrStatus ==
    \A p \in Tasks :
        IsInvoiceSubmission(p) =>
            /\ BadAmount(FormOf(p).amount) =>
                   RejectedUntouched(p) /\ result[p].errors.amount # <<>>
            /\ BadStatus(FormOf(p).status) =>
                   RejectedUntouched(p) /\ result[p].errors.status # <<>>

C1_Witness ==
    \E p \in Tasks :
        /\ handler[p] = "updateInvoice"
        /\ FormOf(p).amount = <<"-", "5">>
        /\ FormOf(p).status = "draft"
        /\ FormOf(p).customerId = "c1"
        /\ result[p].errors.amount # <<>>
        /\ result[p].errors.status # <<>>
        /\ result[p].errors.customerId = <<>>

(* C2: a createInvoice or updateInvoice submission whose customerId is     *)
(* missing or the empty string is rejected with a field error on           *)
(* customerId and persists nothing.                                        *)
C2_RejectsMissingOrEmptyCustomer ==
    \A p \in Tasks :
        (IsInvoiceSubmission(p) /\ FormOf(p).customerId \in {NULL, ""}) =>
            RejectedUntouched(p) /\ result[p].errors.customerId # <<>>

(* The rows the statement of task p wrote (SpecForms: p is the only task) *)
WrittenRows(p) ==
    IF handler[p] = "createInvoice"
    THEN {r \in invoices : r.id = nextId - 1}
    ELSE {r \in invoices : r.id = args[p].id}

(* C3: for an accepted createInvoice or updateInvoice submission whose     *)
(* statement succeeded, the amount written is a whole number of minor      *)
(* units, equal to 100 times the submitted amount.                         *)
C3_StoresIntegerMinorUnits ==
    \A p \in Tasks :
        (IsInvoiceSubmission(p) /\ pc[p] = "done" /\ result[p].type = "redirect") =>
            \A r \in WrittenRows(p) :
                /\ r.amount = 100 * Number(FormOf(p).amount).val
                /\ r.amount % Scale = 0

----------------------------------------------------------------------------
(* Properties of the invoice actions under concurrent submissions          *)
(* (SpecInvoices)                                                          *)

StatementOf(p) ==
    IF handler[p] = "createInvoice" THEN Sql("INSERT INTO invoices")
    ELSE Sql("UPDATE invoices")

Calls(p, name) == {i \in 1..Len(effects[p]) : effects[p][i][1] = name}

(* C4: a createInvoice or updateInvoice submission that passes validation  *)
(* and whose statement succeeds marks '/dashboard/invoices' stale exactly  *)
(* once and then redirects to it exactly once, in that order and after     *)
(* the statement settled; one that fails validation or whose statement     *)
(* fails does neither and returns a message instead of raising.            *)
C4_InvalidateThenRedirectOnSuccessOnly ==
    \A p \in Tasks :
        IsInvoiceSubmission(p) =>
            LET e == effects[p]
                valid == /\ FormOf(p).customerId # NULL
                         /\ ~BadAmount(FormOf(p).amount)
                         /\ ~BadStatus(FormOf(p).status)
            IN  /\ ~valid =>
                       /\ pc[p] = "done"
                       /\ e = <<>>
                       /\ result[p].type = "return"
                       /\ result[p].message # UNDEFINED
                /\ (valid /\ pc[p] # "done") =>
                       /\ e = <<StatementOf(p)>>
                       /\ result[p].type = "pending"
                /\ (valid /\ pc[p] = "done") =>
                       /\ Len(e) >= 2
                       /\ e[1] = StatementOf(p)
                       /\ e[2] \in {<<"settled", "ok">>, <<"settled", "error">>}
                       /\ e[2] = <<"settled", "ok">> =>
                              /\ e = <<StatementOf(p), <<"settled", "ok">>,
                                       <<"revalidatePath", "/dashboard/invoices">>,
                                       <<"redirect", "/dashboard/invoices">>>>
                              /\ result[p].type = "redirect"
                              /\ result[p].value = "/dashboard/invoices"
                       /\ e[2] = <<"settled", "error">> =>
                              /\ Len(e) = 2
                              /\ result[p].type = "return"
                              /\ result[p].message # UNDEFINED

C4_Witness ==
    \E p, q \in Tasks :
        /\ handler[p] = "createInvoice"
        /\ FormOf(p).amount = <<"1", "0", ".", "5", "0">>
        /\ FormOf(p).status = "paid"
        /\ result[p].type = "redirect"
        /\ \E r \in invoices : r.amount = 1050 * Scale /\ r.status = "paid"
        /\ Calls(p, "revalidatePath") = {3}
        /\ Calls(p, "redirect") = {4}
        /\ handler[q] = "updateInvoice"
        /\ pc[q] = "done"
        /\ Len(effects[q]) = 2
        /\ result[q].message = UpdateDbMessage

(* C5, in a state: a deleteInvoice call that ended returned nothing, never *)
(* redirected, and marked the invoices list stale exactly when its DELETE  *)
(* succeeded.                                                              *)
C5_DeleteReturnsNormally ==
    \A p \in Tasks :
        (handler[p] = "deleteInvoice" /\ pc[p] = "done") =>
            /\ result[p].type = "return"
            /\ result[p].value = UNDEFINED
            /\ result[p].message = UNDEFINED
            /\ result[p].errors = NoErrors
            /\ Calls(p, "redirect") = {}
            /\ effects[p][2] = <<"settled", "ok">> =>
                   Calls(p, "revalidatePath") = {3} /\ Len(effects[p]) = 3
            /\ effects[p][2] = <<"settled", "error">> =>
                   Calls(p, "revalidatePath") = {}

(* C5, in a step: a DELETE for an id that is not in the table leaves the   *)
(* table unchanged, a failed one too, and a successful one removes exactly *)
(* the rows of that id.                                                    *)
C5_DeleteStep ==
    \A p \in Tasks :
        (pc[p] = "delete" /\ pc'[p] = "done") =>
            /\ (\A r \in invoices : r.id # args[p].id) => invoices' = invoices
            /\ effects'[p][2] = <<"settled", "error">> => invoices' = invoices
            /\ effects'[p][2] = <<"settled", "ok">> =>
                   /\ \A r \in invoices' : r.id # args[p].id
                   /\ \A r \in invoices : r.id # args[p].id => r \in invoices'
                   /\ invoices' \subseteq invoices

(* C5: deleteInvoice never surfaces an error to its caller, whether the    *)
(* DELETE succeeds or fails: it returns normally with no error payload and *)
(* never redirects; it marks the invoices list stale only when the DELETE  *)
(* succeeded; deleting an id that is not (or no longer) in the table       *)
(* leaves the table unchanged, so a repeated delete changes nothing more.  *)
C5_DeleteNeverSurfacesError == []C5_DeleteReturnsNormally /\ [][C5_DeleteStep]_vars

C5_Witness ==
    \E p, q \in Tasks :
        /\ p # q
        /\ handler[p] = "deleteInvoice" /\ handler[q] = "deleteInvoice"
        /\ args[p].id = 1 /\ args[q].id = 1
        /\ pc[p] = "done" /\ pc[q] = "done"
        /\ effects[p][2] = <<"settled", "ok">>
        /\ effects[q][2] = <<"settled", "error">>
        /\ invoices = {}

(* C10, in a step: an UPDATE that succeeds changes customer_id, amount and *)
(* status of the rows with the given id and nothing else; with no such row *)
(* the table is unchanged, and the handler still invalidates and redirects.*)
C10_UpdateStep ==
    \A p \in Tasks :
        (pc[p] = "update" /\ pc'[p] = "done" /\ effects'[p][2] = <<"settled", "ok">>) =>
            /\ (\A r \in invoices : r.id # args[p].id) => invoices' = invoices
            /\ \A r \in invoices : r.id # args[p].id => r \in invoices'
            /\ \A r \in invoices :
                   r.id = args[p].id =>
                       [id |-> r.id,
                        customer_id |-> FormOf(p).customerId,
                        amount |-> 100 * Number(FormOf(p).amount).val,
                        status |-> FormOf(p).status,
                        date |-> r.date] \in invoices'
            /\ Cardinality(invoices') = Cardinality(invoices)
            /\ {r.id : r \in invoices'} = {r.id : r \in invoices}
            /\ result'[p].type = "redirect"
            /\ result'[p].message = UNDEFINED
            /\ effects'[p] = <<Sql("UPDATE invoices"), <<"settled", "ok">>,
                               <<"revalidatePath", "/dashboard/invoices">>,
                               <<"redirect", "/dashboard/invoices">>>>

(* C10: updateInvoice with valid fields and an id that matches no row is a *)
(* silent no-op that still follows the success path; when the id matches a *)
(* row only that row's customer reference, amount and status change.       *)
C10_UpdateFrame == [][C10_UpdateStep]_vars

C10_Witness ==
    \E p, q \in Tasks :
        /\ p # q
        /\ handler[p] = "updateInvoice" /\ handler[q] = "updateInvoice"
        /\ args[p].id = 3
        /\ args[q].id = 1
        /\ result[p].type = "redirect" /\ result[q].type = "redirect"
        /\ \A r \in invoices : r.id # 3
        /\ invoices = {[SeedInvoice EXCEPT !.customer_id = "c2",
                                           !.amount = 1050 * Scale,
                                           !.status = "paid"]}

----------------------------------------------------------------------------
(* Properties of register and authenticate (SpecUsers)                     *)

IsRegister(p) == handler[p] = "register"

(* The existence check of task p has returned *)
Checked(p) == IsRegister(p) /\ "checkedAt" \in DOMAIN data[p]

(* Rows that were in the table when the check of task p ran: identifiers   *)
(* are handed out in order and this specification deletes no user.         *)
PresentAtCheck(p) ==
    {u \in users : u.email = FormOf(p).email /\ u.id < data[p].checkedAt}

SelectUsers == Sql("SELECT id FROM users")
InsertUsers == Sql("INSERT INTO users")

(* C6: a register submission with valid fields whose existence check       *)
(* returned while its email was already in the users table returns 'User   *)
(* with this email already exists.', and does no hashing, no INSERT and no *)
(* redirect: the SELECT is the only statement it issues.                   *)
C6_ExistingEmailIsRejected ==
    \A p \in Tasks :
        (Checked(p) /\ PresentAtCheck(p) # {}) =>
            /\ pc[p] = "done"
            /\ result[p].type = "return"
            /\ result[p].value = "User with this email already exists."
            /\ effects[p] = <<SelectUsers, <<"settled", "ok">>>>
            /\ Calls(p, "sql") = {1}
            /\ Calls(p, "bcryptjs.hash") = {}
            /\ Calls(p, "redirect") = {}

C6_Witness ==
    \E p \in Tasks :
        /\ Checked(p)
        /\ FormOf(p).email = EmailA
        /\ SeedUser \in PresentAtCheck(p)
        /\ result[p].value = RegisterExistsMessage
        /\ users = {SeedUser}

(* The calls a register submission may have made so far *)
RegisterTraces ==
    LET ok == <<"settled", "ok">>
        error == <<"settled", "error">>
        full == <<SelectUsers, ok, Hashing, InsertUsers, ok, <<"redirect", "/login">>>>
    IN  {SubSeq(full, 1, n) : n \in {1, 3, 4, 6}}
        \cup {<<SelectUsers, ok>>,
              <<SelectUsers, error, ConsoleLog>>,
              <<SelectUsers, ok, Hashing, InsertUsers, error, ConsoleLog>>}

(* C7: register rejects a submission that violates the schema (a password  *)
(* of length 5, say) with the single aggregated message before any SELECT  *)
(* or INSERT; a submission with a password of length 6, a valid name and   *)
(* email goes on to the existence check, and with an unused email to the   *)
(* hash, then one INSERT that stores the digest and never the plaintext,   *)
(* then the redirect to '/login'.                                          *)
C7_PasswordBoundaryBeforeDatabase ==
    \A p \in Tasks :
        IsRegister(p) =>
            LET fd == FormOf(p)
                e == effects[p]
                bad == \/ fd.name \in {NULL, ""}
                       \/ fd.email \notin {EmailA, EmailB}
                       \/ fd.password \in {NULL, "12345"}
            IN  /\ bad =>
                       /\ pc[p] = "done"
                       /\ e = <<>>
                       /\ result[p].type = "return"
                       /\ result[p].value = "Missing Fields. Failed to Register."
                /\ ~bad =>
                       /\ e \in RegisterTraces
                       /\ pc[p] = "done" <=> result[p].type # "pending"
                       /\ (Checked(p) /\ PresentAtCheck(p) = {}) => Len(e) >= 3
                       /\ Len(e) = 6 /\ e[5] = <<"settled", "ok">> =>
                              /\ result[p].type = "redirect"
                              /\ result[p].value = "/login"
                              /\ \E u \in users :
                                     /\ u.id >= data[p].checkedAt
                                     /\ u.name = fd.name
                                     /\ u.email = fd.email
                                     /\ Len(u.password) = 4
                                     /\ u.password[1] = "$2a$"
                                     /\ u.password[4] = fd.password
                       /\ result[p].type = "redirect" => Len(e) = 6
                       /\ Calls(p, "redirect") # {} => result[p].type = "redirect"

C7_Witness ==
    \E p \in Tasks :
        /\ IsRegister(p)
        /\ FormOf(p) = [name |-> "Bob", email |-> EmailB, password |-> "123456"]
        /\ result[p] = Redirected(LoginPath)
        /\ Cardinality(Calls(p, "sql")) = 2
        /\ \E u \in users : u.email = EmailB /\ u.password = Hash("123456", 1)

(* C8: authenticate returns exactly 'Invalid credentials.' for an          *)
(* AuthError of type CredentialsSignin, exactly 'Something went wrong.'    *)
(* for an AuthError of any other type, rethrows unmodified any error that  *)
(* is not an AuthError, and returns no message when signIn succeeds.       *)
C8_AuthenticateMapsOutcome ==
    \A p \in Tasks :
        handler[p] = "authenticate" =>
            /\ pc[p] = "done" <=> result[p].type # "pending"
            /\ pc[p] = "done" =>
                   LET o == data[p].outcome
                   IN  /\ (o.kind = "AuthError" /\ o.type = "CredentialsSignin") =>
                              /\ result[p].type = "return"
                              /\ result[p].value = "Invalid credentials."
                       /\ (o.kind = "AuthError" /\ o.type # "CredentialsSignin") =>
                              /\ result[p].type = "return"
                              /\ result[p].value = "Something went wrong."
                       /\ o.kind = "Error" =>
                              /\ result[p].type = "throw"
                              /\ result[p].value = o
                       /\ o.kind = "resolved" =>
                              /\ result[p].type = "return"
                              /\ result[p].value = UNDEFINED
                              /\ result[p].message = UNDEFINED

C8_Witness ==
    \E p, q \in Tasks :
        /\ handler[p] = "authenticate" /\ handler[q] = "authenticate"
        /\ pc[p] = "done" /\ pc[q] = "done"
        /\ data[p].outcome = [kind |-> "Error", type |-> "TypeError"]
        /\ result[p].type = "throw"
        /\ data[q].outcome = [kind |-> "AuthError", type |-> "AccessDenied"]
        /\ result[q].type = "return"
        /\ result[q].value = SomethingWrongMessage

(* Tasks whose registration of the given email went through *)
Registered(email) ==
    {p \in Tasks : IsRegister(p) /\ FormOf(p).email = email
                   /\ result[p].type = "redirect"}

(* C9: two rows for one email arise only from register submissions that    *)
(* interleave, each having run its existence check before either row was   *)
(* inserted (the witness shows that they do arise); a submission whose     *)
(* check runs after a row for its email was inserted, as when submissions  *)
(* run one after the other, is rejected and inserts nothing.               *)
C9_DuplicatesOnlyByInterleaving ==
    /\ \A r1, r2 \in users :
           (r1.id < r2.id /\ r1.email = r2.email) =>
               \E p, q \in Registered(r1.email) :
                   /\ p # q
                   /\ data[p].checkedAt <= r1.id
                   /\ data[q].checkedAt <= r1.id
    /\ \A p \in Tasks :
           (Checked(p) /\ PresentAtCheck(p) # {}) =>
               /\ result[p].type = "return"
               /\ Calls(p, "sql") = {1}

C9_Witness ==
    \E r1, r2 \in users :
        /\ r1.id # r2.id
        /\ r1.email = EmailB
        /\ r2.email = EmailB
        /\ Cardinality(Registered(EmailB)) = 2

====
